---- MODULE Spec2Model ----
(***************************************************************************)
(* Model of the directory indexer (___e.g.security-step-1-indexer.py):     *)
(* main(), scan_directory(), is_ignored(), parse_gitignore() and           *)
(* calculate_file_hash().  Paths, file names, ignore rules and regular     *)
(* expressions are strings; the string functions of Python that the code   *)
(* uses are operators over them.                                           *)
(***************************************************************************)
EXTENDS Integers, Sequences, FiniteSets, TLC

(***************************************************************************)
(* Bounds.                                                                 *)
(***************************************************************************)
\* Number of distinct values uuid.uuid4() can return in the model.
NumIds == 4

(***************************************************************************)
(* Python string primitives.                                               *)
(***************************************************************************)
Ch(s, i) == SubSeq(s, i, i)

\* pat in s
Contains(pat, s) ==
  \E i \in 1..(Len(s) - Len(pat) + 1) : SubSeq(s, i, i + Len(pat) - 1) = pat

\* s.startswith(p)
StartsWith(s, p) == Len(p) <= Len(s) /\ SubSeq(s, 1, Len(p)) = p

\* s.endswith(p)
EndsWith(s, p) ==
  Len(p) <= Len(s) /\ SubSeq(s, Len(s) - Len(p) + 1, Len(s)) = p

\* s.replace(c, r) for a one-character c
RECURSIVE Replace(_, _, _)
Replace(s, c, r) ==
  IF s = "" THEN ""
  ELSE (IF Head(s) = c THEN r ELSE Head(s)) \o Replace(Tail(s), c, r)

Whitespace == {" ", "\n", "\t"}

RECURSIVE LStrip(_)
LStrip(s) ==
  IF s # "" /\ Head(s) \in Whitespace THEN LStrip(Tail(s)) ELSE s

RECURSIVE RStrip(_)
RStrip(s) ==
  IF s # "" /\ Ch(s, Len(s)) \in Whitespace
  THEN RStrip(SubSeq(s, 1, Len(s) - 1)) ELSE s

\* s.strip()
Strip(s) == RStrip(LStrip(s))

\* any(pattern in name for pattern in patterns)
AnyIn(patterns, name) ==
  \E k \in 1..Len(patterns) : Contains(patterns[k], name)

\* os.path.join(a, b)
Join(a, b) ==
  IF StartsWith(b, "/") THEN b
  ELSE IF a = "" \/ EndsWith(a, "/") THEN a \o b
  ELSE a \o "/" \o b

\* os.path.relpath(root, start) for a root that os.walk(start) yields
RECURSIVE NormPath(_)
NormPath(p) ==
  IF Len(p) > 1 /\ EndsWith(p, "/") THEN NormPath(SubSeq(p, 1, Len(p) - 1))
  ELSE p

RelPath(root, start) ==
  LET r == NormPath(root)
      s == NormPath(start)
  IN  IF r = s THEN "."
      ELSE SubSeq(r, Len(s) + 2, Len(r))

\* os.path.splitext(filename)[1]
RECURSIVE LastDot(_, _)
LastDot(s, i) ==
  IF i = 0 THEN 0 ELSE IF Ch(s, i) = "." THEN i ELSE LastDot(s, i - 1)

SplitExt(filename) ==
  LET p == LastDot(filename, Len(filename))
  IN  IF p > 0 /\ (\E i \in 1..(p - 1) : Ch(filename, i) # ".")
      THEN SubSeq(filename, p, Len(filename))
      ELSE ""

\* mimetypes.guess_type(filename)[0] or f"unknown{file_extension}"
MimeTable == (".txt" :> "text/plain") @@ (".bin" :> "application/octet-stream")

FileType(filename) ==
  LET file_extension == SplitExt(filename)
  IN  IF file_extension \in DOMAIN MimeTable THEN MimeTable[file_extension]
      ELSE "unknown" \o file_extension

(***************************************************************************)
(* re.match(f"^{regex_pattern}$", check_path) for the regular expressions  *)
(* that is_ignored builds: literals, "\" escapes, ".", "*" after an atom    *)
(* and "|" between alternatives.  Of "^a|b$" the alternative with "^" has  *)
(* no "$": it matches when a prefix of the path matches; re.match tries    *)
(* every alternative at the start of the path.                             *)
(***************************************************************************)
\* re.compile raises re.error on an unterminated character set
ReCompiles(re) == ~ Contains("[", re)

RECURSIVE ReMatchFrom(_, _, _, _)
ReMatchFrom(re, i, s, j) ==
  IF i > Len(re) THEN j > Len(s)
  ELSE IF Ch(re, i) = "|" THEN TRUE
  ELSE
    LET esc  == Ch(re, i) = "\\"
        w    == IF esc THEN 2 ELSE 1
        lit  == IF esc THEN Ch(re, i + 1) ELSE Ch(re, i)
        any  == ~esc /\ Ch(re, i) = "."
        star == i + w <= Len(re) /\ Ch(re, i + w) = "*"
        one  == j <= Len(s) /\ (any \/ Ch(s, j) = lit)
    IN  IF star
        THEN ReMatchFrom(re, i + w + 1, s, j)
             \/ (one /\ ReMatchFrom(re, i, s, j + 1))
        ELSE one /\ ReMatchFrom(re, i + w, s, j + 1)

\* Where the alternatives of a regular expression start: at 1 and after
\* every "|" that no "\" escapes.
RECURSIVE AltStartsFrom(_, _)
AltStartsFrom(re, i) ==
  IF i > Len(re) THEN {}
  ELSE IF Ch(re, i) = "\\" THEN AltStartsFrom(re, i + 2)
  ELSE IF Ch(re, i) = "|" THEN {i + 1} \cup AltStartsFrom(re, i + 1)
  ELSE AltStartsFrom(re, i + 1)

ReMatch(re, s) ==
  \E k \in {1} \cup AltStartsFrom(re, 1) : ReMatchFrom(re, k, s, 1)

(***************************************************************************)
(* calculate_file_hash, parse_gitignore, is_ignored.                       *)
(***************************************************************************)
\* hashlib.sha256 over the whole content: distinct contents, distinct digests
Sha256(content) == "sha256:" \o content

\* calculate_file_hash with the handler of line 42 returning the sentinel of
\* the caller's handler.
calculate_file_hash_ErrorSentinel(f, skip_hash) ==
  IF skip_hash THEN "skipped"
  ELSE IF f.perm = "ok" THEN Sha256(f.content)
  ELSE "error"

\* calculate_file_hash without the test of line 32.
calculate_file_hash_IgnoresSkip(f, skip_hash) ==
  IF f.perm = "ok" THEN Sha256(f.content) ELSE "hash_error"

\* calculate_file_hash without the try/except of lines 36-44: the failure of
\* open or read leaves the function as an exception.
calculate_file_hash_Propagates(f, skip_hash) ==
  IF skip_hash THEN "skipped"
  ELSE IF f.perm = "ok" THEN Sha256(f.content)
  ELSE "raise"

\* A file of the scanned tree: perm is "ok", "noread" (stat succeeds, open
\* raises) or "nostat" (os.stat raises).
calculate_file_hash(f, skip_hash) ==
  IF skip_hash THEN "skipped"
  ELSE IF f.perm = "ok" THEN Sha256(f.content)
  ELSE "hash_error"

\* The files calculate_file_hash opens: none when skip_hash is set.
OpenedByHash(f, skip_hash) == IF skip_hash THEN {} ELSE {f.name}

\* The lines the loop of line 59 gets before the handler of line 64 runs.
LinesRead(lines, fail) ==
  IF fail < 0 THEN lines ELSE SubSeq(lines, 1, fail)

\* Lines 56-63 over the lines read; line 67 returns what was collected.
RECURSIVE parse_gitignore(_)
parse_gitignore(lines) ==
  IF lines = <<>> THEN <<>>
  ELSE LET line == Strip(Head(lines))
       IN  (IF line # "" /\ ~ StartsWith(line, "#") THEN <<line>> ELSE <<>>)
           \o parse_gitignore(Tail(lines))

\* Lines 89-106: the regular expression built from one rule.
RuleIsNegation(pattern) == StartsWith(pattern, "!")

\* RuleRegex with a rule without slashes matching whole path components
\* only.
RuleRegex_WholeComponent(pattern) ==
  LET p0 == IF RuleIsNegation(pattern)
            THEN SubSeq(pattern, 2, Len(pattern)) ELSE pattern
      r1 == Replace(p0, ".", "\\.")
      r2 == Replace(r1, "*", ".*")
      r3 == Replace(r2, "?", ".")
      r4 == IF EndsWith(r3, "/") THEN SubSeq(r3, 1, Len(r3) - 1) ELSE r3
  IN  IF ~ Contains("/", r4) THEN ".*/" \o r4 ELSE r4

RuleRegex(pattern) ==
  LET p0 == IF RuleIsNegation(pattern)
            THEN SubSeq(pattern, 2, Len(pattern)) ELSE pattern
      r1 == Replace(p0, ".", "\\.")
      r2 == Replace(r1, "*", ".*")
      r3 == Replace(r2, "?", ".")
      r4 == IF EndsWith(r3, "/") THEN SubSeq(r3, 1, Len(r3) - 1) ELSE r3
  IN  IF ~ Contains("/", r4) THEN ".*" \o r4 ELSE r4

CheckPath(rel_path) == IF rel_path # "" THEN Join(".", rel_path) ELSE "."

\* IsIgnoredFrom with line 110 returning is_negation.
RECURSIVE IsIgnoredFrom_InvertedVerdict(_, _, _)
IsIgnoredFrom_InvertedVerdict(check_path, gitignore_patterns, k) ==
  IF k > Len(gitignore_patterns) THEN "False"
  ELSE LET pattern == gitignore_patterns[k]
           regex_pattern == RuleRegex(pattern)
       IN  IF ~ ReCompiles(regex_pattern) THEN "re.error"
           ELSE IF ReMatch(regex_pattern, check_path)
           THEN (IF RuleIsNegation(pattern) THEN "True" ELSE "False")
           ELSE IsIgnoredFrom_InvertedVerdict(check_path, gitignore_patterns,
                                              k + 1)

\* The loop of lines 87-112 from rule k on: "True", "False", or "re.error"
\* when re.match raises.
RECURSIVE IsIgnoredFrom(_, _, _)
IsIgnoredFrom(check_path, gitignore_patterns, k) ==
  IF k > Len(gitignore_patterns) THEN "False"
  ELSE LET pattern == gitignore_patterns[k]
           regex_pattern == RuleRegex(pattern)
       IN  IF ~ ReCompiles(regex_pattern) THEN "re.error"
           ELSE IF ReMatch(regex_pattern, check_path)
           THEN (IF RuleIsNegation(pattern) THEN "False" ELSE "True")
           ELSE IsIgnoredFrom(check_path, gitignore_patterns, k + 1)

is_ignored(rel_path, gitignore_patterns) ==
  IF gitignore_patterns = <<>> THEN "False"
  ELSE IsIgnoredFrom(CheckPath(rel_path), gitignore_patterns, 1)

(***************************************************************************)
(* The scanned trees.  A tree maps every directory path that os.walk can   *)
(* yield to its listing: child directory names and files, in listing       *)
(* order.                                                                  *)
(***************************************************************************)
File(name, size, content, perm) ==
  [name |-> name, st_size |-> size, content |-> content, perm |-> perm,
   st_ctime |-> "2024-01-01T00:00:00", st_mtime |-> "2024-01-02T00:00:00"]

Dir(dirs, files) == [dirs |-> dirs, files |-> files]

GitignoreFile == File(".gitignore", 9, "rules", "ok")

\* keep.tmp and other.tmp beside the ignore file
TreeTmp ==
  [target |-> "t",
   nodes  |-> ("t" :> Dir(<<>>, <<GitignoreFile,
                                  File("keep.tmp", 1, "k", "ok"),
                                  File("other.tmp", 2, "oo", "ok")>>))]

\* build/output.bin and src/main.txt
TreeBuild ==
  [target |-> "t",
   nodes  |-> ("t" :> Dir(<<"build", "src">>, <<GitignoreFile>>))
          @@ ("t/build" :> Dir(<<>>, <<File("output.bin", 4, "bbbb", "ok")>>))
          @@ ("t/src" :> Dir(<<>>, <<File("main.txt", 3, "mmm", "ok")>>))]

\* no ignore file; a version-control directory, an empty directory, a file
\* that cannot be opened and one that cannot be stat'ed
TreeErr ==
  [target |-> "t",
   nodes  |-> ("t" :> Dir(<<".git", "empty", "src">>, <<>>))
          @@ ("t/.git" :> Dir(<<>>, <<File("config", 2, "cc", "ok")>>))
          @@ ("t/empty" :> Dir(<<>>, <<>>))
          @@ ("t/src" :> Dir(<<>>, <<File("main.txt", 3, "mmm", "noread"),
                                     File("gone.log", 5, "ggggg", "nostat")>>))]

\* log files at two depths beside a text file
TreeLog ==
  [target |-> "t",
   nodes  |-> ("t" :> Dir(<<"sub">>, <<GitignoreFile,
                                       File("a.log", 6, "aaaaaa", "ok"),
                                       File("a.txt", 1, "a", "ok")>>))
          @@ ("t/sub" :> Dir(<<>>, <<File("b.log", 2, "bb", "ok")>>))]

\* a target directory whose own name holds a default ignore substring
TreeVenv ==
  [target |-> "venv-p",
   nodes  |-> ("venv-p" :> Dir(<<"src">>, <<File("a.txt", 1, "a", "ok")>>))
          @@ ("venv-p/src" :> Dir(<<>>, <<File("main.txt", 3, "mmm", "ok")>>))]

\* secret.txt at two depths and a file z
TreeSecret ==
  [target |-> "t",
   nodes  |-> ("t" :> Dir(<<"src">>, <<GitignoreFile,
                                       File("secret.txt", 2, "s1", "ok"),
                                       File("z", 1, "z", "ok")>>))
          @@ ("t/src" :> Dir(<<>>, <<File("secret.txt", 2, "s2", "ok")>>))]

\* xkeep.tmp, a directory named keep.tmp with a file, and sub/keep.tmp
TreeKeep ==
  [target |-> "t",
   nodes  |-> ("t" :> Dir(<<"keep.tmp", "sub">>,
                          <<GitignoreFile, File("xkeep.tmp", 2, "xk", "ok")>>))
          @@ ("t/keep.tmp" :> Dir(<<>>, <<File("a", 1, "a", "ok")>>))
          @@ ("t/sub" :> Dir(<<>>, <<File("keep.tmp", 1, "k", "ok")>>))]

\* (tree, raw lines of its .gitignore, number of lines the read of the
\* .gitignore delivers before it raises: 0 when open raises, -1 when the
\* read does not fail)
Scenario(t, lines, fail) ==
  [tree |-> t, gitignore_lines |-> lines, gitignore_fail |-> fail]

Scenarios ==
  { Scenario(TreeTmp,   <<"*.tmp\n", "!keep.tmp\n">>, -1),
    Scenario(TreeTmp,   <<"!keep.tmp\n", "*.tmp\n">>, -1),
    Scenario(TreeTmp,   <<"other.tmp\n", "[x\n">>, -1),
    Scenario(TreeTmp,   <<"*.tmp\n", "!keep.tmp\n">>, 0),
    Scenario(TreeTmp,   <<"*.tmp\n", "!keep.tmp\n">>, 1),
    Scenario(TreeLog,   <<"*.log\n">>, -1),
    Scenario(TreeBuild, <<"# out\n", "build/\n">>, -1),
    Scenario(TreeBuild, <<"\n", "  *.bin \n">>, -1),
    Scenario(TreeBuild, <<>>, -1),
    Scenario(TreeErr,   <<>>, -1),
    Scenario(TreeVenv,  <<>>, -1),
    Scenario(TreeSecret, <<"src/secret.txt\n", "!/secret.txt\n",
                           "x/y|./z\n">>, -1),
    Scenario(TreeKeep,  <<"keep.tmp\n">>, -1) }

\* args.ignore: None when --ignore is absent, else the list given
IgnoreArgs ==
  { [given |-> FALSE, pats |-> <<>>],
    [given |-> TRUE,  pats |-> <<"tmp">>] }

\* output_in_tree: args.output names a file of the target directory
Args ==
  [target_exists : BOOLEAN, ignore : IgnoreArgs, no_gitignore : BOOLEAN,
   no_hash : BOOLEAN, output_writable : BOOLEAN, output_in_tree : BOOLEAN]

\* One run: the walk is over when the manifest is written, so that the
\* place of the output file plays no part.
ArgsOnce == { a \in Args : ~ a.output_in_tree }

\* Two runs with hashing on, the first of which writes its manifest.
ArgsTwice ==
  { a \in Args : a.target_exists /\ a.output_writable /\ ~ a.no_hash }

\* Base name of args.output
OutputName == "scan.out"

DefaultIgnorePatterns ==
  <<".git", "__pycache__", "venv", "node_modules", ".DS_Store">>

Ids == 1..NumIds

(***************************************************************************)
(* State.                                                                  *)
(***************************************************************************)
VARIABLES
  tree,               \* the file system under target_dir
  gitignore_lines,    \* raw lines of target_dir/.gitignore
  gitignore_fail,     \* lines read from it before the read raises, or -1
  args,               \* parsed command line
  pc,                 \* position: main, scan, walk, files, genid, entry,
                      \*           returned, exited
  ignore_patterns, gitignore_patterns, result, used_ids,
  walk_stack,         \* directories os.walk has still to yield
  root, rel_path, folder_entry,
  files,              \* files of the current directory not yet iterated
  cur,                \* file of the current iteration of the file loop
  file_id,
  opened,             \* file names opened to read their content
  output_file,        \* documents written to output_file, <<>> if untouched
  main_rc,            \* value main() returns
  outcome,            \* return statement main() took
  exit_status,        \* status of the process
  previous            \* what earlier runs returned, ids and times left out

vars == <<tree, gitignore_lines, gitignore_fail, args, pc, ignore_patterns,
          gitignore_patterns, result, used_ids, walk_stack, root, rel_path,
          folder_entry, files, cur, file_id, opened, output_file, main_rc,
          outcome, exit_status, previous>>

inputs == <<gitignore_lines, gitignore_fail, args, previous>>
config == <<tree, inputs>>
scan_state == <<ignore_patterns, gitignore_patterns, result, used_ids,
                walk_stack, root, rel_path, folder_entry, files, cur,
                file_id, opened>>

NoFile == File("", 0, "", "ok")

InitWith(argset) ==
  /\ \E sc \in Scenarios :
       /\ tree = sc.tree
       /\ gitignore_lines = sc.gitignore_lines
       /\ gitignore_fail = sc.gitignore_fail
  /\ args \in argset
  /\ pc = "main"
  /\ ignore_patterns = <<>>
  /\ gitignore_patterns = <<>>
  /\ result = [scan_info |-> [target_directory |-> "", total_folders |-> 0,
                              total_files |-> 0],
               folders |-> <<>>]
  /\ used_ids = {}
  /\ walk_stack = <<>>
  /\ root = ""
  /\ rel_path = ""
  /\ folder_entry = [path |-> "", files |-> <<>>]
  /\ files = <<>>
  /\ cur = NoFile
  /\ file_id = 0
  /\ opened = {}
  /\ output_file = <<>>
  /\ main_rc = -1
  /\ outcome = "none"
  /\ exit_status = -1
  /\ previous = <<>>

Init == InitWith(ArgsOnce)

InitTwice == InitWith(ArgsTwice)

(***************************************************************************)
(* main() and scan_directory().                                            *)
(***************************************************************************)
\* main() leaves through one of its return statements.
MainReturns(rc, how) ==
  /\ main_rc' = rc
  /\ outcome' = how
  /\ pc' = "returned"

\* Lines 278-297: the target directory check, then the call of the scan.
MainCheck ==
  /\ pc = "main"
  /\ IF ~ args.target_exists
       THEN MainReturns(1, "missing")
       ELSE /\ pc' = "scan"
            /\ UNCHANGED <<main_rc, outcome>>
  /\ UNCHANGED <<config, scan_state, output_file, exit_status>>

\* os.path.isfile(os.path.join(target_dir, '.gitignore'))
GitignoreIsFile ==
  \E k \in 1..Len(tree.nodes[tree.target].files) :
     tree.nodes[tree.target].files[k].name = ".gitignore"

\* Lines 125-126.
EffectiveIgnorePatterns(ignore) ==
  IF ~ ignore.given THEN DefaultIgnorePatterns ELSE ignore.pats

\* Lines 125-150.
ScanBegin ==
  /\ pc = "scan"
  /\ ignore_patterns' = EffectiveIgnorePatterns(args.ignore)
  /\ gitignore_patterns' =
       IF ~ args.no_gitignore /\ GitignoreIsFile
       THEN parse_gitignore(LinesRead(gitignore_lines, gitignore_fail))
       ELSE <<>>
  /\ result' = [scan_info |-> [target_directory |-> Join("/cwd", tree.target),
                               total_folders |-> 0, total_files |-> 0],
                folders |-> <<>>]
  /\ used_ids' = {}
  /\ walk_stack' = <<tree.target>>
  /\ pc' = "walk"
  /\ UNCHANGED <<config, root, rel_path, folder_entry, files, cur, file_id,
                 opened, output_file, main_rc, outcome, exit_status>>

\* KeptDir without the filter of line 155.
KeptDir_KeepsAll(d) == TRUE

\* [d for d in dirs if not any(pattern in d for pattern in ignore_patterns)]
KeptDir(d) == ~ AnyIn(ignore_patterns, d)

\* RemoveAt(seq, k): seq without its k-th element
RemoveAt(seq, k) == SubSeq(seq, 1, k - 1) \o SubSeq(seq, k + 1, Len(seq))

\* WalkNext over a walk that yields the pending directories in no fixed
\* order.
WalkNext_AnyOrder ==
  /\ pc = "walk"
  /\ walk_stack # <<>>
  /\ \E idx \in 1..Len(walk_stack) :
       LET r    == walk_stack[idx]
           dirs == SelectSeq(tree.nodes[r].dirs, KeptDir)
           rel  == RelPath(r, tree.target)
       IN  /\ root' = r
           /\ walk_stack' = [k \in 1..Len(dirs) |-> Join(r, dirs[k])]
                            \o RemoveAt(walk_stack, idx)
           /\ IF AnyIn(ignore_patterns, r)
                THEN /\ pc' = "walk"
                     /\ UNCHANGED <<rel_path, folder_entry, files>>
                ELSE /\ rel_path' = (IF rel = "." THEN "" ELSE rel)
                     /\ folder_entry' = [path |-> rel_path', files |-> <<>>]
                     /\ files' = tree.nodes[r].files
                     /\ pc' = "files"
  /\ UNCHANGED <<config, ignore_patterns, gitignore_patterns, result,
                 used_ids, cur, file_id, opened, output_file, main_rc,
                 outcome, exit_status>>

\* WalkNext with the test of line 158 made on the path relative to
\* target_dir.
WalkNext_ChecksRelPath ==
  /\ pc = "walk"
  /\ walk_stack # <<>>
  /\ LET r    == Head(walk_stack)
         dirs == SelectSeq(tree.nodes[r].dirs, KeptDir)
         rel  == RelPath(r, tree.target)
     IN  /\ root' = r
         /\ walk_stack' = [k \in 1..Len(dirs) |-> Join(r, dirs[k])]
                          \o Tail(walk_stack)
         /\ IF AnyIn(ignore_patterns, rel)
              THEN /\ pc' = "walk"
                   /\ UNCHANGED <<rel_path, folder_entry, files>>
              ELSE /\ rel_path' = (IF rel = "." THEN "" ELSE rel)
                   /\ folder_entry' = [path |-> rel_path', files |-> <<>>]
                   /\ files' = tree.nodes[r].files
                   /\ pc' = "files"
  /\ UNCHANGED <<config, ignore_patterns, gitignore_patterns, result,
                 used_ids, cur, file_id, opened, output_file, main_rc,
                 outcome, exit_status>>

\* Lines 153-170: os.walk yields the next directory.
WalkNext ==
  /\ pc = "walk"
  /\ walk_stack # <<>>
  /\ LET r    == Head(walk_stack)
         dirs == SelectSeq(tree.nodes[r].dirs, KeptDir)
         rel  == RelPath(r, tree.target)
     IN  /\ root' = r
         /\ walk_stack' = [k \in 1..Len(dirs) |-> Join(r, dirs[k])]
                          \o Tail(walk_stack)
         /\ IF AnyIn(ignore_patterns, r)
              THEN /\ pc' = "walk"
                   /\ UNCHANGED <<rel_path, folder_entry, files>>
              ELSE /\ rel_path' = (IF rel = "." THEN "" ELSE rel)
                   /\ folder_entry' = [path |-> rel_path', files |-> <<>>]
                   /\ files' = tree.nodes[r].files
                   /\ pc' = "files"
  /\ UNCHANGED <<config, ignore_patterns, gitignore_patterns, result,
                 used_ids, cur, file_id, opened, output_file, main_rc,
                 outcome, exit_status>>

\* Lines 173-183: the next file of the directory passes the two filters,
\* is skipped, or the matcher raises.
FileNext ==
  /\ pc = "files"
  /\ files # <<>>
  /\ LET f == Head(files)
         filename == f.name
         file_rel_path ==
           IF rel_path # "" THEN Join(rel_path, filename) ELSE filename
         verdict == is_ignored(file_rel_path, gitignore_patterns)
     IN  /\ files' = Tail(files)
         /\ IF AnyIn(ignore_patterns, filename)
              THEN UNCHANGED <<pc, cur, main_rc, outcome>>
              ELSE IF verdict = "True"
              THEN UNCHANGED <<pc, cur, main_rc, outcome>>
              ELSE IF verdict = "re.error"
              THEN MainReturns(1, "exception") /\ UNCHANGED cur
              ELSE /\ cur' = f
                   /\ pc' = "genid"
                   /\ UNCHANGED <<main_rc, outcome>>
  /\ UNCHANGED <<config, ignore_patterns, gitignore_patterns, result,
                 used_ids, walk_stack, root, rel_path, folder_entry,
                 file_id, opened, output_file, exit_status>>

\* GenId without the while loop of lines 187-188.
GenId_NoRetry ==
  /\ pc = "genid"
  /\ \E id \in Ids :
       /\ file_id' = id
       /\ used_ids' = used_ids \cup {id}
       /\ pc' = "entry"
  /\ UNCHANGED <<config, ignore_patterns, gitignore_patterns, result,
                 walk_stack, root, rel_path, folder_entry, files, cur,
                 opened, output_file, main_rc, outcome, exit_status>>

\* Lines 186-189: one call of uuid.uuid4() and the test of the while loop.
GenId ==
  /\ pc = "genid"
  /\ \E id \in Ids :
       /\ file_id' = id
       /\ IF id \in used_ids
            THEN UNCHANGED <<pc, used_ids>>
            ELSE /\ used_ids' = used_ids \cup {id}
                 /\ pc' = "entry"
  /\ UNCHANGED <<config, ignore_patterns, gitignore_patterns, result,
                 walk_stack, root, rel_path, folder_entry, files, cur,
                 opened, output_file, main_rc, outcome, exit_status>>

\* FileEntry with 'folder': root, the path as os.walk yields it.
FileEntry_FolderIsRoot(f, id, folder, skip_hash) ==
  [id |-> id,
   folder |-> (IF folder = "" THEN tree.target ELSE Join(tree.target, folder)),
   file_name |-> f.name,
   file_type |-> FileType(f.name),
   metadata |-> [created_date |-> f.st_ctime, last_modified |-> f.st_mtime,
                 last_reviewed |-> "", size_bytes |-> f.st_size,
                 hash |-> calculate_file_hash(f, skip_hash)],
   description |-> "", security_observations |-> ""]

\* Lines 206-220.
FileEntry(f, id, folder, skip_hash) ==
  [id |-> id, folder |-> folder, file_name |-> f.name,
   file_type |-> FileType(f.name),
   metadata |-> [created_date |-> f.st_ctime, last_modified |-> f.st_mtime,
                 last_reviewed |-> "", size_bytes |-> f.st_size,
                 hash |-> calculate_file_hash(f, skip_hash)],
   description |-> "", security_observations |-> ""]

\* ErrorEntry with line 244 leaving the placeholder empty.
ErrorEntry_NoObservation(f, id, folder) ==
  [id |-> id, folder |-> folder, file_name |-> f.name,
   file_type |-> FileType(f.name),
   metadata |-> [created_date |-> "", last_modified |-> "",
                 last_reviewed |-> "", size_bytes |-> 0, hash |-> "error"],
   description |-> "Error processing file",
   security_observations |-> ""]

\* Lines 231-245.
ErrorEntry(f, id, folder) ==
  [id |-> id, folder |-> folder, file_name |-> f.name,
   file_type |-> FileType(f.name),
   metadata |-> [created_date |-> "", last_modified |-> "",
                 last_reviewed |-> "", size_bytes |-> 0, hash |-> "error"],
   description |-> "Error processing file",
   security_observations |->
     "File could not be processed, may require manual review"]

\* The try block of lines 196-226 is left by an exception: os.stat raises,
\* or calculate_file_hash lets one out ("raise").
TryBlockRaises(f, skip_hash) ==
  f.perm = "nostat" \/ calculate_file_hash(f, skip_hash) = "raise"

\* Lines 191-247: os.stat, the hash, the record, the append.
MakeEntry ==
  /\ pc = "entry"
  /\ LET file_entry ==
           IF TryBlockRaises(cur, args.no_hash)
           THEN ErrorEntry(cur, file_id, rel_path)
           ELSE FileEntry(cur, file_id, rel_path, args.no_hash)
     IN  folder_entry' =
           [folder_entry EXCEPT !.files = Append(@, file_entry)]
  /\ opened' = IF cur.perm = "nostat" THEN opened
               ELSE opened \cup OpenedByHash(cur, args.no_hash)
  /\ pc' = "files"
  /\ UNCHANGED <<config, ignore_patterns, gitignore_patterns, result,
                 used_ids, walk_stack, root, rel_path, files, cur, file_id,
                 output_file, main_rc, outcome, exit_status>>

\* FinishDir with line 253 adding one instead of the number of records.
FinishDir_CountsOne ==
  /\ pc = "files"
  /\ files = <<>>
  /\ IF folder_entry.files # <<>>
       THEN result' =
              [result EXCEPT
                 !.folders = Append(@, folder_entry),
                 !.scan_info.total_folders = @ + 1,
                 !.scan_info.total_files = @ + 1]
       ELSE UNCHANGED result
  /\ pc' = "walk"
  /\ UNCHANGED <<config, ignore_patterns, gitignore_patterns, used_ids,
                 walk_stack, root, rel_path, folder_entry, files, cur,
                 file_id, opened, output_file, main_rc, outcome,
                 exit_status>>

\* FinishDir without the test of line 250.
FinishDir_KeepsEmpty ==
  /\ pc = "files"
  /\ files = <<>>
  /\ result' =
       [result EXCEPT
          !.folders = Append(@, folder_entry),
          !.scan_info.total_folders = @ + 1,
          !.scan_info.total_files = @ + Len(folder_entry.files)]
  /\ pc' = "walk"
  /\ UNCHANGED <<config, ignore_patterns, gitignore_patterns, used_ids,
                 walk_stack, root, rel_path, folder_entry, files, cur,
                 file_id, opened, output_file, main_rc, outcome,
                 exit_status>>

\* Lines 249-253: the end of one directory.
FinishDir ==
  /\ pc = "files"
  /\ files = <<>>
  /\ IF folder_entry.files # <<>>
       THEN result' =
              [result EXCEPT
                 !.folders = Append(@, folder_entry),
                 !.scan_info.total_folders = @ + 1,
                 !.scan_info.total_files = @ + Len(folder_entry.files)]
       ELSE UNCHANGED result
  /\ pc' = "walk"
  /\ UNCHANGED <<config, ignore_patterns, gitignore_patterns, used_ids,
                 walk_stack, root, rel_path, folder_entry, files, cur,
                 file_id, opened, output_file, main_rc, outcome,
                 exit_status>>

\* Lines 255-258.
Stamped(res) ==
  [scan_info |-> [target_directory |-> res.scan_info.target_directory,
                  total_folders |-> res.scan_info.total_folders,
                  total_files |-> res.scan_info.total_files,
                  scan_duration_seconds |-> "duration",
                  scan_timestamp |-> "now"],
   folders |-> res.folders]

\* open(output_file, 'w') and yaml.dump when output_file is in the target
\* directory: the listing of the directory has the file from then on.
ManifestFile == File(OutputName, 8, "manifest", "ok")

RECURSIVE WithoutName(_, _)
WithoutName(fs, name) ==
  IF fs = <<>> THEN <<>>
  ELSE (IF Head(fs).name = name THEN <<>> ELSE <<Head(fs)>>)
       \o WithoutName(Tail(fs), name)

WithOutputFile(t) ==
  [t EXCEPT !.nodes[t.target].files =
     Append(WithoutName(@, OutputName), ManifestFile)]

\* WriteManifest with lines 255-268 indented into the loop of line 153.
WriteManifest_InsideLoop ==
  /\ pc = "walk"
  /\ result' = Stamped(result)
  /\ IF args.output_writable
       THEN /\ output_file' = Append(output_file, result')
            /\ tree' = (IF args.output_in_tree THEN WithOutputFile(tree)
                        ELSE tree)
            /\ MainReturns(0, "completed")
       ELSE /\ UNCHANGED <<output_file, tree>>
            /\ MainReturns(1, "exception")
  /\ UNCHANGED <<inputs, ignore_patterns, gitignore_patterns, used_ids,
                 walk_stack, root, rel_path, folder_entry, files, cur,
                 file_id, opened, exit_status>>

\* Lines 255-268 and 305: after the walk, the manifest is written, or
\* open(output_file, 'w') raises.
WriteManifest ==
  /\ pc = "walk"
  /\ walk_stack = <<>>
  /\ result' = Stamped(result)
  /\ IF args.output_writable
       THEN /\ output_file' = Append(output_file, result')
            /\ tree' = (IF args.output_in_tree THEN WithOutputFile(tree)
                        ELSE tree)
            /\ MainReturns(0, "completed")
       ELSE /\ UNCHANGED <<output_file, tree>>
            /\ MainReturns(1, "exception")
  /\ UNCHANGED <<inputs, ignore_patterns, gitignore_patterns, used_ids,
                 walk_stack, root, rel_path, folder_entry, files, cur,
                 file_id, opened, exit_status>>

Scanning == pc \in {"scan", "walk", "files", "genid", "entry"}

\* Lines 298-300: Ctrl-C while scan_directory runs.
KeyboardInterrupt ==
  /\ Scanning
  /\ MainReturns(1, "interrupt")
  /\ UNCHANGED <<config, scan_state, output_file, exit_status>>

\* Lines 307-308: main()'s value is dropped; the interpreter ends normally.
ProcessExit ==
  /\ pc = "returned"
  /\ exit_status' = 0
  /\ pc' = "exited"
  /\ UNCHANGED <<config, scan_state, output_file, main_rc, outcome>>

\* What the two runs of the idempotence property are compared on.
Shape(res) ==
  [i \in 1..Len(res.folders) |->
     [path  |-> res.folders[i].path,
      files |-> [j \in 1..Len(res.folders[i].files) |->
                   [file_name  |-> res.folders[i].files[j].file_name,
                    file_type  |-> res.folders[i].files[j].file_type,
                    size_bytes |-> res.folders[i].files[j].metadata.size_bytes,
                    hash       |-> res.folders[i].files[j].metadata.hash]]]]

\* The script is run again with the same arguments after a run that wrote
\* its manifest: a new process, the file system as the first run left it.
Rerun ==
  /\ pc = "exited"
  /\ outcome = "completed"
  /\ previous = <<>>
  /\ previous' = <<Shape(result)>>
  /\ pc' = "main"
  /\ ignore_patterns' = <<>>
  /\ gitignore_patterns' = <<>>
  /\ result' = [scan_info |-> [target_directory |-> "", total_folders |-> 0,
                               total_files |-> 0],
                folders |-> <<>>]
  /\ used_ids' = {}
  /\ walk_stack' = <<>>
  /\ root' = ""
  /\ rel_path' = ""
  /\ folder_entry' = [path |-> "", files |-> <<>>]
  /\ files' = <<>>
  /\ cur' = NoFile
  /\ file_id' = 0
  /\ opened' = {}
  /\ main_rc' = -1
  /\ outcome' = "none"
  /\ exit_status' = -1
  /\ UNCHANGED <<tree, gitignore_lines, gitignore_fail, args, output_file>>

Next ==
  \/ MainCheck
  \/ ScanBegin
  \/ WalkNext
  \/ FileNext
  \/ GenId
  \/ MakeEntry
  \/ FinishDir
  \/ WriteManifest
  \/ KeyboardInterrupt
  \/ ProcessExit

Spec == Init /\ [][Next]_vars

\* The run that Ctrl-C does not interrupt, in which the interpreter keeps
\* executing the program and uuid.uuid4() returns an unused value after
\* finitely many tries.
GenIdFresh == GenId /\ pc' = "entry"

NextFair ==
  \/ MainCheck
  \/ ScanBegin
  \/ WalkNext
  \/ FileNext
  \/ GenId
  \/ MakeEntry
  \/ FinishDir
  \/ WriteManifest
  \/ ProcessExit

\* A step of the program is possible until the process has ended.
Running == pc # "exited"

\* Weak fairness of the program's steps, with Running written for
\* ENABLED <<NextFair>>_vars, and of the generator's fresh value.
SpecFair ==
  /\ Init /\ [][NextFair]_vars
  /\ ([]<>(~ Running) \/ []<><<NextFair>>_vars)
  /\ WF_vars(GenIdFresh)

NextTwice ==
  \/ Next
  \/ Rerun

SpecTwice == InitTwice /\ [][NextTwice]_vars

(***************************************************************************)
(* Vocabulary of the properties.                                           *)
(***************************************************************************)
RECURSIVE Flatten(_)
Flatten(folders) ==
  IF folders = <<>> THEN <<>>
  ELSE Head(folders).files \o Flatten(Tail(folders))

\* The records of the directory being processed, not yet in result.
InProgress ==
  IF pc \in {"files", "genid", "entry"} THEN folder_entry.files ELSE <<>>

\* Every FileRecord made so far, in order of creation.
AllEntries == Flatten(result.folders) \o InProgress

\* The manifest on disk, once written.
ManifestWritten == output_file # <<>>
Manifest == output_file[Len(output_file)]

\* The directory of the tree a folder path names, and the file a record is
\* about.
NodePath(folder) ==
  IF folder = "" THEN tree.target ELSE Join(tree.target, folder)

FileOf(e) ==
  LET fs == tree.nodes[NodePath(e.folder)].files
  IN  fs[CHOOSE k \in 1..Len(fs) : fs[k].name = e.file_name]

FolderOf(r) ==
  LET rel == RelPath(r, tree.target) IN IF rel = "." THEN "" ELSE rel

RelFile(r, f) ==
  IF FolderOf(r) # "" THEN Join(FolderOf(r), f.name) ELSE f.name

HasRecord(doc, r, f) ==
  \E i \in 1..Len(doc.folders) :
    /\ doc.folders[i].path = FolderOf(r)
    /\ \E j \in 1..Len(doc.folders[i].files) :
         doc.folders[i].files[j].file_name = f.name

\* The files the substring list lets through: the directory is visited and
\* not skipped, and the file name holds no ignore substring.
PassesSubstrings(r, f) ==
  /\ ~ AnyIn(ignore_patterns, r)
  /\ ~ AnyIn(ignore_patterns, f.name)

FilesIn(r) ==
  { <<r, tree.nodes[r].files[k]>> : k \in 1..Len(tree.nodes[r].files) }

TreeFiles == UNION { FilesIn(r) : r \in DOMAIN tree.nodes }

\* The rules of the list that match a path.
MatchingRules(rel, rules) ==
  { k \in 1..Len(rules) :
      /\ ReCompiles(RuleRegex(rules[k]))
      /\ ReMatch(RuleRegex(rules[k]), CheckPath(rel)) }

Max(S) == CHOOSE m \in S : \A n \in S : n <= m

\* Verdict when the last matching rule decides.
LastRuleExcludes(rel, rules) ==
  LET M == MatchingRules(rel, rules)
  IN  M # {} /\ ~ RuleIsNegation(rules[Max(M)])

(***************************************************************************)
(* C1.  The last rule of the ignore file that matches a path decides       *)
(* whether it is excluded; with no matching rule it is kept.  In the       *)
(* written manifest: a file that passes the substring list has a record    *)
(* exactly when the last matching rule does not exclude it.                *)
(***************************************************************************)
C1_LastMatchingRuleDecides ==
  ManifestWritten =>
    \A rf \in TreeFiles :
      PassesSubstrings(rf[1], rf[2]) =>
        ( HasRecord(Manifest, rf[1], rf[2])
          <=> ~ LastRuleExcludes(RelFile(rf[1], rf[2]), gitignore_patterns) )

(***************************************************************************)
(* C2.  A rule with a trailing slash (build/) keeps every file in or       *)
(* below a directory of that name out of the manifest, while files that    *)
(* no rule matches are still recorded.                                     *)
(***************************************************************************)
DirRuleNames ==
  { SubSeq(gitignore_patterns[k], 1, Len(gitignore_patterns[k]) - 1) :
      k \in { i \in 1..Len(gitignore_patterns) :
                /\ EndsWith(gitignore_patterns[i], "/")
                /\ ~ RuleIsNegation(gitignore_patterns[i]) } }

InOrBelow(folder, name) ==
  \/ folder = name
  \/ StartsWith(folder, name \o "/")
  \/ EndsWith(folder, "/" \o name)
  \/ Contains("/" \o name \o "/", folder)

C2_DirectoryRuleExcludesSubtree ==
  ManifestWritten =>
    /\ \A i \in 1..Len(Manifest.folders) : \A name \in DirRuleNames :
         ~ InOrBelow(Manifest.folders[i].path, name)
    /\ \A rf \in TreeFiles :
         ( /\ PassesSubstrings(rf[1], rf[2])
           /\ MatchingRules(RelFile(rf[1], rf[2]), gitignore_patterns) = {}
           /\ \A name \in DirRuleNames : ~ InOrBelow(FolderOf(rf[1]), name) )
         => HasRecord(Manifest, rf[1], rf[2])

(***************************************************************************)
(* C3.  As claimed: a file whose stat succeeds but whose content cannot    *)
(* be opened gets a record with hash "error", size 0 and a non-empty       *)
(* security_observations.                                                  *)
(***************************************************************************)
C3_UnreadableFileGetsErrorRecord ==
  \A i \in 1..Len(AllEntries) :
    LET e == AllEntries[i]
    IN  (FileOf(e).perm = "noread" /\ ~ args.no_hash) =>
          /\ e.metadata.hash = "error"
          /\ e.metadata.size_bytes = 0
          /\ e.security_observations # ""

\* The files both filters let through.
Surviving(r, f) ==
  /\ PassesSubstrings(r, f)
  /\ is_ignored(RelFile(r, f), gitignore_patterns) = "False"

SomeRuleDoesNotCompile ==
  \E k \in 1..Len(gitignore_patterns) :
    ~ ReCompiles(RuleRegex(gitignore_patterns[k]))

(***************************************************************************)
(* C3, amended.  A file whose content cannot be opened gets a record with  *)
(* hash "hash_error" ("skipped" when hashing is off), its stat size and    *)
(* empty security_observations; the record with hash "error", size 0 and   *)
(* the manual-review text is the one of a file whose stat fails.  Neither  *)
(* failure ends the scan: an exception leaves the scan only from the       *)
(* matcher or the write of the manifest, and the written manifest has a    *)
(* record for every file that passes the filters.                          *)
(***************************************************************************)
C3_UnreadableFileGetsHashError ==
  /\ \A i \in 1..Len(AllEntries) :
       LET e == AllEntries[i]
           f == FileOf(e)
       IN  /\ f.perm = "noread" =>
                /\ e.metadata.hash =
                     (IF args.no_hash THEN "skipped" ELSE "hash_error")
                /\ e.metadata.size_bytes = f.st_size
                /\ e.security_observations = ""
           /\ f.perm = "nostat" =>
                /\ e.metadata.hash = "error"
                /\ e.metadata.size_bytes = 0
                /\ e.security_observations # ""
  /\ outcome = "exception" =>
       (~ args.output_writable \/ SomeRuleDoesNotCompile)
  /\ ManifestWritten =>
       \A rf \in TreeFiles :
         Surviving(rf[1], rf[2]) => HasRecord(Manifest, rf[1], rf[2])

\* A written manifest in which a record follows the record of a file that
\* could not be opened for hashing.
C3_Witness ==
  /\ ManifestWritten
  /\ ~ args.no_hash
  /\ \E i \in 1..Len(Manifest.folders) :
       \E j \in 1..Len(Manifest.folders[i].files) :
         /\ FileOf(Manifest.folders[i].files[j]).perm = "noread"
         /\ Manifest.folders[i].files[j].metadata.hash = "hash_error"
         /\ j < Len(Manifest.folders[i].files)

(***************************************************************************)
(* C4.  total_folders is the number of FolderRecords and total_files the   *)
(* number of FileRecords in them, in result at every point of the scan     *)
(* and in the manifest written.                                            *)
(***************************************************************************)
CountsAgree(doc) ==
  /\ doc.scan_info.total_folders = Len(doc.folders)
  /\ doc.scan_info.total_files = Len(Flatten(doc.folders))

C4_CountsMatchFolders ==
  /\ CountsAgree(result)
  /\ ManifestWritten => CountsAgree(Manifest)

\* A manifest of several folders, one of them with several files.
C4_Witness ==
  /\ ManifestWritten
  /\ Len(Manifest.folders) >= 2
  /\ \E i \in 1..Len(Manifest.folders) : Len(Manifest.folders[i].files) >= 2

(***************************************************************************)
(* C5.  The ids of the FileRecords of one scan are pairwise distinct,      *)
(* also when uuid4() returns a value issued before.                        *)
(***************************************************************************)
DistinctIds(entries) ==
  \A i, j \in 1..Len(entries) : i # j => entries[i].id # entries[j].id

C5_IdsPairwiseDistinct ==
  /\ DistinctIds(AllEntries)
  /\ ManifestWritten => DistinctIds(Flatten(Manifest.folders))

\* uuid4() has just returned the id of the first record while the id of a
\* third or later file is generated.
C5_Witness ==
  /\ pc = "genid"
  /\ Len(AllEntries) >= 2
  /\ file_id = AllEntries[1].id

Range(seq) == { seq[k] : k \in 1..Len(seq) }

(***************************************************************************)
(* C6.  With --ignore given, the substring list in force during the scan   *)
(* is the five defaults plus the additions, and no record has a file name  *)
(* or folder that holds one of the defaults.                               *)
(***************************************************************************)
C6_AdditionsExtendDefaults ==
  (args.ignore.given /\ pc \in {"walk", "files", "genid", "entry"}) =>
    /\ Range(ignore_patterns) =
         Range(DefaultIgnorePatterns) \cup Range(args.ignore.pats)
    /\ \A i \in 1..Len(AllEntries) :
         /\ ~ AnyIn(DefaultIgnorePatterns, AllEntries[i].file_name)
         /\ ~ AnyIn(DefaultIgnorePatterns, AllEntries[i].folder)

(***************************************************************************)
(* C7.  The process ends with status zero after a completed scan and with  *)
(* a non-zero status when the target directory is missing, the scan is     *)
(* interrupted or an exception leaves the scan.                            *)
(***************************************************************************)
C7_ExitStatusReflectsOutcome ==
  pc = "exited" => (exit_status = 0 <=> outcome = "completed")

(***************************************************************************)
(* C8.  As claimed: with skip_hash set every record has hash "skipped"     *)
(* and no file is opened to read its content.                              *)
(***************************************************************************)
C8_SkipHashAllSkipped ==
  args.no_hash =>
    /\ opened = {}
    /\ \A i \in 1..Len(AllEntries) : AllEntries[i].metadata.hash = "skipped"

(***************************************************************************)
(* C8, amended.  With skip_hash set no file is opened to read its          *)
(* content, every record of a file whose stat succeeded has hash           *)
(* "skipped", and the record of a file whose stat failed has hash "error". *)
(***************************************************************************)
C8_SkipHashSkippedUnlessStatFails ==
  args.no_hash =>
    /\ opened = {}
    /\ \A i \in 1..Len(AllEntries) :
         AllEntries[i].metadata.hash =
           (IF FileOf(AllEntries[i]).perm = "nostat" THEN "error"
            ELSE "skipped")
    /\ ManifestWritten =>
         \A i \in 1..Len(Flatten(Manifest.folders)) :
           Flatten(Manifest.folders)[i].metadata.hash \in {"skipped", "error"}

\* A manifest written with skip_hash set that records a file which could
\* not have been opened and a file whose stat failed.
C8_Witness ==
  /\ args.no_hash
  /\ ManifestWritten
  /\ \E i, j \in 1..Len(AllEntries) :
       /\ FileOf(AllEntries[i]).perm = "noread"
       /\ AllEntries[i].metadata.hash = "skipped"
       /\ FileOf(AllEntries[j]).perm = "nostat"

(***************************************************************************)
(* C9.  No FolderRecord with an empty files list is in result or in the    *)
(* manifest: a directory left without records adds no FolderRecord and     *)
(* does not count in total_folders.                                        *)
(***************************************************************************)
NoEmptyFolder(doc) ==
  /\ \A i \in 1..Len(doc.folders) : doc.folders[i].files # <<>>
  /\ doc.scan_info.total_folders =
       Cardinality({ i \in 1..Len(doc.folders) : doc.folders[i].files # <<>> })

C9_NoEmptyFolderRecord ==
  /\ NoEmptyFolder(result)
  /\ ManifestWritten => NoEmptyFolder(Manifest)

\* The processing of a directory that has files, all of them filtered
\* out, has just finished.
C9_Witness ==
  /\ pc = "walk"
  /\ root # ""
  /\ ~ AnyIn(ignore_patterns, root)
  /\ tree.nodes[root].files # <<>>
  /\ folder_entry.path = FolderOf(root)
  /\ folder_entry.files = <<>>

(***************************************************************************)
(* C10.  The manifest is written only once the walk has yielded every      *)
(* directory: a run with a missing target directory or an interrupt        *)
(* leaves the output file untouched.                                       *)
(***************************************************************************)
C10_OutputOnlyAfterTraversal ==
  /\ outcome \in {"missing", "interrupt"} => output_file = <<>>
  /\ ManifestWritten =>
       /\ args.target_exists
       /\ outcome = "completed"
       /\ walk_stack = <<>>
       /\ pc \in {"returned", "exited"}

\* A run interrupted in the middle of the walk, after some records were made.
C10_Witness ==
  /\ pc = "exited"
  /\ outcome = "interrupt"
  /\ result.folders # <<>>
  /\ walk_stack # <<>>
  /\ output_file = <<>>

(***************************************************************************)
(* C11.  A failure while reading the ignore file, on open or after some    *)
(* lines were read, leaves the scan with an empty list of rules and does   *)
(* not end it.                                                             *)
(***************************************************************************)
C11_FailedReadYieldsNoRules ==
  gitignore_fail >= 0 =>
    /\ gitignore_patterns = <<>>
    /\ outcome = "exception" => ~ args.output_writable

(***************************************************************************)
(* C12.  calculate_file_hash lets no exception out: for a file whose stat  *)
(* succeeded the record is the normal one and its hash is "skipped" when   *)
(* hashing is off, else the digest of the content, or "hash_error" when    *)
(* the content cannot be read.  The record of the handler of line 228,     *)
(* with hash "error", is made only when os.stat raised.                    *)
(***************************************************************************)
C12_HashFailureStaysInHasher ==
  \A i \in 1..Len(AllEntries) :
    LET e == AllEntries[i]
        f == FileOf(e)
    IN  /\ f.perm # "nostat" =>
             /\ e.metadata.hash =
                  (IF args.no_hash THEN "skipped"
                   ELSE IF f.perm = "ok" THEN Sha256(f.content)
                   ELSE "hash_error")
             /\ e.description = ""
        /\ e.metadata.hash = "error" => f.perm = "nostat"
        /\ e.description # "" => f.perm = "nostat"

\* The record of a file that could not be opened has just been appended,
\* with hashing on.
C12_Witness ==
  /\ pc = "files"
  /\ ~ args.no_hash
  /\ cur.perm = "noread"
  /\ folder_entry.files # <<>>
  /\ folder_entry.files[Len(folder_entry.files)].file_name = cur.name
  /\ folder_entry.files[Len(folder_entry.files)].metadata.hash = "hash_error"

\* Rules of the form *.ext, and the extension of such a rule.
IsExtGlob(p) ==
  /\ StartsWith(p, "*.")
  /\ ~ Contains("/", p)
  /\ ~ Contains("?", p)
  /\ ~ Contains("[", p)
  /\ ~ Contains("*", SubSeq(p, 2, Len(p)))

ExtOf(p) == SubSeq(p, 2, Len(p))

ExtGlobRules ==
  { k \in 1..Len(gitignore_patterns) : IsExtGlob(gitignore_patterns[k]) }

\* Number of records of a file in a document.
CountRecords(doc, r, f) ==
  Cardinality({ ij \in UNION { { <<i, j>> : j \in 1..Len(doc.folders[i].files) }
                               : i \in 1..Len(doc.folders) } :
                  /\ doc.folders[ij[1]].path = FolderOf(r)
                  /\ doc.folders[ij[1]].files[ij[2]].file_name = f.name })

\* A file that passes the substring list and that no rule matches has
\* exactly one record in the manifest.
UnmatchedRecordedOnce ==
  \A rf \in TreeFiles :
    ( /\ PassesSubstrings(rf[1], rf[2])
      /\ MatchingRules(RelFile(rf[1], rf[2]), gitignore_patterns) = {} )
    => CountRecords(Manifest, rf[1], rf[2]) = 1

EarlierNegationMatches(rel, k) ==
  \E j \in 1..(k - 1) :
    /\ RuleIsNegation(gitignore_patterns[j])
    /\ j \in MatchingRules(rel, gitignore_patterns)

ManualReviewText ==
  "File could not be processed, may require manual review"

C15_SecondRunSameShape ==
  (previous # <<>> /\ outcome = "completed") => Shape(result) = previous[1]

(***************************************************************************)
(* C15, amended.  A second run with the same arguments returns the same    *)
(* folder paths, file names, types, sizes and hashes as the first,         *)
(* provided the output file does not lie in the scanned tree.              *)
(***************************************************************************)
C15_SecondRunSameShapeOutputOutside ==
  (previous # <<>> /\ outcome = "completed" /\ ~ args.output_in_tree)
    => Shape(result) = previous[1]

\* Two manifests written by two runs with the output outside the tree:
\* several folders, and ids that differ between the runs.
C15_Witness ==
  /\ previous # <<>>
  /\ outcome = "completed"
  /\ ~ args.output_in_tree
  /\ Len(output_file) = 2
  /\ Len(output_file[2].folders) >= 2
  /\ output_file[1].folders # output_file[2].folders

\* The path of a directory below the target directory holds no ignore
\* substring.
CleanBelowTarget(p) ==
  (p # "" /\ p # tree.target) => ~ AnyIn(ignore_patterns, RelPath(p, tree.target))

CleanEntries(entries) ==
  \A i \in 1..Len(entries) :
    /\ ~ AnyIn(ignore_patterns, entries[i].file_name)
    /\ ~ AnyIn(ignore_patterns, entries[i].folder)

(***************************************************************************)
(* C16.  No FileRecord has a file name that holds an ignore substring of   *)
(* the list in force, or a folder with a component that holds one; a       *)
(* directory with such a name is pruned: the walk neither yields it nor    *)
(* has it or a descendant pending.                                         *)
(***************************************************************************)
C16_SubstringMatchesPruned ==
  /\ CleanEntries(AllEntries)
  /\ ManifestWritten => CleanEntries(Flatten(Manifest.folders))
  /\ CleanBelowTarget(root)
  /\ \A k \in 1..Len(walk_stack) : CleanBelowTarget(walk_stack[k])

\* A manifest with records, written after the walk of a tree in which a
\* directory with files has a name that holds an ignore substring.
C16_Witness ==
  /\ ManifestWritten
  /\ Manifest.folders # <<>>
  /\ \E k \in 1..Len(tree.nodes[tree.target].dirs) :
       /\ AnyIn(ignore_patterns, tree.nodes[tree.target].dirs[k])
       /\ tree.nodes[Join(tree.target, tree.nodes[tree.target].dirs[k])].files
            # <<>>

(***************************************************************************)
(* C17.  A failure in a per-file step (rule matching, type guessing,       *)
(* metadata read, hashing) stays with that file: when main() has returned  *)
(* from a scan that was not interrupted and whose output can be written,   *)
(* the manifest is written and holds a record of every file that passes    *)
(* the substring list and that the rules do not exclude, the files on      *)
(* which a step failed included.                                           *)
(***************************************************************************)
C17_PerFileFailureContained ==
  ( /\ pc \in {"returned", "exited"}
    /\ outcome \notin {"missing", "interrupt"}
    /\ args.output_writable )
  => /\ ManifestWritten
     /\ \A rf \in TreeFiles :
          ( /\ PassesSubstrings(rf[1], rf[2])
            /\ is_ignored(RelFile(rf[1], rf[2]), gitignore_patterns) # "True" )
          => HasRecord(Manifest, rf[1], rf[2])

(***************************************************************************)
(* C18.  The matcher is consulted for directories as for files: no         *)
(* FolderRecord, in the result or in the manifest, has a path that the     *)
(* rules of the ignore file exclude.                                       *)
(***************************************************************************)
FoldersNotExcluded(folders) ==
  \A i \in 1..Len(folders) :
    folders[i].path # "" =>
      is_ignored(folders[i].path, gitignore_patterns) # "True"

C18_MatcherConsultedForDirectories ==
  /\ FoldersNotExcluded(result.folders)
  /\ ManifestWritten => FoldersNotExcluded(Manifest.folders)

(***************************************************************************)
(* C19.  In the written manifest every file of the tree that passes the    *)
(* substring list and the rules of the ignore file has exactly one record, *)
(* in the FolderRecord whose path is its directory's path relative to the  *)
(* target ("" for the target itself); every other file has none; every     *)
(* record's folder equals the path of the FolderRecord that holds it, and  *)
(* every record is that of a file of that directory.                       *)
(***************************************************************************)
C19_SurvivorsRecordedOnceInTheirFolder ==
  ManifestWritten =>
    /\ \A rf \in TreeFiles :
         CountRecords(Manifest, rf[1], rf[2])
           = (IF Surviving(rf[1], rf[2]) THEN 1 ELSE 0)
    /\ \A i \in 1..Len(Manifest.folders) :
         \A j \in 1..Len(Manifest.folders[i].files) :
           /\ Manifest.folders[i].files[j].folder = Manifest.folders[i].path
           /\ \E rf \in TreeFiles :
                /\ FolderOf(rf[1]) = Manifest.folders[i].path
                /\ rf[2].name = Manifest.folders[i].files[j].file_name

\* A manifest with several FolderRecords, one of them of a subdirectory
\* with a record, for a tree with a file that a filter keeps out.
C19_Witness ==
  /\ ManifestWritten
  /\ Len(Manifest.folders) >= 2
  /\ \E i \in 1..Len(Manifest.folders) :
       Manifest.folders[i].path # "" /\ Manifest.folders[i].files # <<>>
  /\ \E rf \in TreeFiles : ~ Surviving(rf[1], rf[2])

(***************************************************************************)
(* C20.  When the path of the target directory, as passed to               *)
(* scan_directory, holds an ignore substring of the list in force, every   *)
(* directory the walk yields is skipped: no record and no FolderRecord is  *)
(* ever made, and the written manifest has no folders, total_folders 0     *)
(* and total_files 0, whatever the tree holds.                             *)
(***************************************************************************)
EmptyDocument(doc) ==
  /\ doc.folders = <<>>
  /\ doc.scan_info.total_folders = 0
  /\ doc.scan_info.total_files = 0

C20_IgnoredTargetYieldsEmptyManifest ==
  AnyIn(ignore_patterns, tree.target) =>
    /\ EmptyDocument(result)
    /\ AllEntries = <<>>
    /\ pc \notin {"files", "genid", "entry"}
    /\ ManifestWritten => EmptyDocument(Manifest)

\* The manifest of a target directory whose name holds an ignore
\* substring, with files in it and below it, after the walk went through
\* the subdirectory.
C20_Witness ==
  /\ ManifestWritten
  /\ AnyIn(ignore_patterns, tree.target)
  /\ root # tree.target
  /\ \A r \in DOMAIN tree.nodes : tree.nodes[r].files # <<>>

(***************************************************************************)
(* C21.  A rule with an interior "/" whose first character is a literal    *)
(* other than ".", "*" and "?" matches no candidate path, every candidate  *)
(* path starting with "./": the verdict on every file is the one of the    *)
(* rule list without such rules.                                           *)
(***************************************************************************)
RegexMeta == {"[", "]", "(", ")", "{", "}", "|", "\\", "^", "$", "+"}

RuleBody(pattern) ==
  IF RuleIsNegation(pattern) THEN SubSeq(pattern, 2, Len(pattern)) ELSE pattern

AnchoredSlashRule(pattern) ==
  LET q    == RuleBody(pattern)
      body == IF EndsWith(q, "/") THEN SubSeq(q, 1, Len(q) - 1) ELSE q
  IN  /\ Contains("/", body)
      /\ Ch(q, 1) \notin {".", "*", "?"} \cup RegexMeta

NotAnchoredSlashRule(pattern) == ~ AnchoredSlashRule(pattern)

C21_AnchoredSlashRuleNeverMatches ==
  \A rf \in TreeFiles :
    /\ \A k \in 1..Len(gitignore_patterns) :
         AnchoredSlashRule(gitignore_patterns[k]) =>
           ~ ReMatch(RuleRegex(gitignore_patterns[k]),
                     CheckPath(RelFile(rf[1], rf[2])))
    /\ is_ignored(RelFile(rf[1], rf[2]), gitignore_patterns)
         = is_ignored(RelFile(rf[1], rf[2]),
                      SelectSeq(gitignore_patterns, NotAnchoredSlashRule))

(***************************************************************************)
(* C22.  A rule without slashes made of literal characters matches a       *)
(* candidate path exactly when the path ends with the rule's text: a file  *)
(* whose name merely ends with it (xkeep.tmp for keep.tmp) is matched as   *)
(* the file of that name is, and a path that goes on after it (keep.tmp/a) *)
(* is not.  When it is the only rule, the manifest has a record of a file  *)
(* that passes the substring list exactly when the rule does not exclude   *)
(* it this way.                                                            *)
(***************************************************************************)
SlashFreeLiteral(pattern) ==
  LET q == RuleBody(pattern)
  IN  /\ q # ""
      /\ \A i \in 1..Len(q) : Ch(q, i) \notin {"*", "?", "/"} \cup RegexMeta

C22_LiteralRuleMatchesBySuffix ==
  \A k \in 1..Len(gitignore_patterns) :
    SlashFreeLiteral(gitignore_patterns[k]) =>
      \A rf \in TreeFiles :
        LET rule       == gitignore_patterns[k]
            check_path == CheckPath(RelFile(rf[1], rf[2]))
            suffix     == EndsWith(check_path, RuleBody(rule))
        IN  /\ ReMatch(RuleRegex(rule), check_path) <=> suffix
            /\ ( /\ Len(gitignore_patterns) = 1
                 /\ ManifestWritten
                 /\ PassesSubstrings(rf[1], rf[2]) )
               => ( HasRecord(Manifest, rf[1], rf[2])
                      <=> ~ (suffix /\ ~ RuleIsNegation(rule)) )

\* The manifest written under a literal rule: a file whose name ends with
\* the rule's text without being it has no record, a file in a directory
\* of that name has one.
C22_Witness ==
  /\ ManifestWritten
  /\ \E k \in 1..Len(gitignore_patterns) :
       /\ SlashFreeLiteral(gitignore_patterns[k])
       /\ \E rf \in TreeFiles :
            /\ rf[2].name # gitignore_patterns[k]
            /\ EndsWith(rf[2].name, gitignore_patterns[k])
            /\ PassesSubstrings(rf[1], rf[2])
            /\ ~ HasRecord(Manifest, rf[1], rf[2])
       /\ \E rf \in TreeFiles :
            /\ FolderOf(rf[1]) = gitignore_patterns[k]
            /\ HasRecord(Manifest, rf[1], rf[2])

(***************************************************************************)
(* C23.  Without an interrupt and with an identifier generator that        *)
(* eventually returns an unused value, a scan that has begun, with an      *)
(* output file that can be written, comes to its end with the manifest     *)
(* written exactly once.                                                   *)
(***************************************************************************)
C23_ScanEndsWithManifestWrittenOnce ==
  (pc = "scan" /\ args.output_writable)
    ~> (pc = "exited" /\ Len(output_file) = 1)

\* Every scan that has begun leaves scan_directory, by its return or by an
\* exception, and the process ends.
ScanAlwaysLeaves == (pc = "scan") ~> (pc = "exited")

\* The identifier loop of one file is left.
IdLoopExits == (pc = "genid") ~> (pc = "entry")

====
